---- MODULE Spec2Model ----
(***************************************************************************)
(* Model of add_sdw_variants_to_nnunetv2_plans.py: one invocation of       *)
(* main() is a sequence of steps (environment check, dataset resolution,   *)
(* load, one loop iteration per (S, D, W) triplet, backup, overwrite,      *)
(* final report); invocations follow one another on the same file system.  *)
(***************************************************************************)
EXTENDS Integers, Sequences, FiniteSets, TLC

\* ---------------------------------------------------------------- bounds
\* longest kernel_sizes / strides schedule of the base entry on disk
MaxLen == 7
\* number of invocations of the script in a row
MaxRuns == 2

\* ------------------------------------------------------ program constants
S_set == <<4, 5, 6>>
D_set == <<2, 3>>
W_set == <<16, 32, 64>>
FeatCap == 512
DieCode == 1

\* triplets = [(S, D, W) for S in S_set for D in D_set for W in W_set]
triplets ==
  [k \in 1..(Len(S_set) * Len(D_set) * Len(W_set)) |->
     [S |-> S_set[((k - 1) \div (Len(D_set) * Len(W_set))) + 1],
      D |-> D_set[(((k - 1) \div Len(W_set)) % Len(D_set)) + 1],
      W |-> W_set[((k - 1) % Len(W_set)) + 1]]]

NTriplets == Len(triplets)

short_name(t) == "S" \o ToString(t.S) \o "D" \o ToString(t.D) \o "W" \o ToString(t.W)

config_name(t) == "3d_fullres_" \o short_name(t)

BaseName == "3d_fullres"

VariantNames == {config_name(triplets[k]) : k \in 1..NTriplets}

\* ------------------------------------------------------------- text lines
StartsWith(s, p) == Len(s) >= Len(p) /\ SubSeq(s, 1, Len(p)) = p

Contains(s, sub) ==
  \E k \in 1..(Len(s) - Len(sub) + 1) : SubSeq(s, k, k + Len(sub) - 1) = sub

MsgNotSet == "nnUNet_preprocessed environment variable not set"
MsgNoDataset == "Dataset not found in nnUNet_preprocessed"
MsgNoPlans == "Plans file not found"
MsgNoBase == "3d_fullres configuration not found in plans"
MsgNoKwargs == "Unexpected plans format: missing architecture.arch_kwargs"

\* die(msg, code=1): the line printed and the exit status
dieMutCode(msg) == [line |-> "Error: " \o msg, code |-> 0]

die(msg) == [line |-> "Error: " \o msg, code |-> DieCode]

\* ------------------------------------------------------ schedules (lists)
Repeat(x, n) == [j \in 1..n |-> x]

Take(s, n) == SubSeq(s, 1, IF n < Len(s) THEN n ELSE Len(s))

Min(a, b) == IF a < b THEN a ELSE b

FallbackKernel == <<3, 3, 3>>
FallbackStride == <<2, 2, 2>>

\* lines 102-108: the width schedule
RECURSIVE FeatsLoop(_, _, _, _)
FeatsLoop(feats, cur, i, S) ==
  IF i >= S THEN feats
  ELSE FeatsLoop(Append(feats, Min(cur, FeatCap)),
                 IF i < S - 1 THEN Min(cur * 2, FeatCap) ELSE cur,
                 i + 1, S)

RECURSIVE FeatsLoopNoCap(_, _, _, _)
FeatsLoopNoCap(feats, cur, i, S) ==
  IF i >= S THEN feats
  ELSE FeatsLoopNoCap(Append(feats, cur), cur * 2, i + 1, S)

FeaturesNoCap(S, W) == FeatsLoopNoCap(<<>>, W, 0, S)

Features(S, W) == FeatsLoop(<<>>, W, 0, S)

\* lines 111-112
ConvPerStage(S, D) == Repeat(D, S)

ConvPerStageDecoderLong(S, D) == Repeat(D, S)

ConvPerStageDecoder(S, D) == Repeat(D, S - 1)

\* lines 118-130: ks, st are the values of arch_kwargs.get(..., []); the
\* result says whether the two keys are assigned and with what.
\* Python's list * n is the empty list for n <= 0.
PyRepeat(x, n) == IF n > 0 THEN Repeat(x, n) ELSE <<>>

Reconcile(ks, st, S) ==
  IF Len(ks) # S \/ Len(st) # S
  THEN LET last_k == IF ks # <<>> THEN ks[Len(ks)] ELSE FallbackKernel
           last_s == IF st # <<>> THEN st[Len(st)] ELSE FallbackStride
       IN IF S > Len(ks)
          THEN [assigned |-> TRUE,
                ks |-> ks \o PyRepeat(last_k, S - Len(ks)),
                st |-> st \o PyRepeat(last_s, S - Len(st))]
          ELSE [assigned |-> TRUE, ks |-> Take(ks, S), st |-> Take(st, S)]
  ELSE [assigned |-> FALSE, ks |-> ks, st |-> st]

\* ------------------------------------------------- configuration entries
\* One ConfigurationEntry.  tag says how far architecture.arch_kwargs exists:
\*   "noarch"  no "architecture" key          "nokw"  no "arch_kwargs" key
\*   "nullkw"  "arch_kwargs": null            "kw"    arch_kwargs is a mapping
\* other   : every field of the entry outside arch_kwargs
\* kwOther : every field of arch_kwargs the script never assigns
\* hasKs / hasSt : whether the keys kernel_sizes / strides are present
MkEntry(tag, other, kwOther, n, feats, ncs, ncsd, hasKs, ks, hasSt, st) ==
  [tag |-> tag, other |-> other, kwOther |-> kwOther, n_stages |-> n,
   features_per_stage |-> feats, n_conv_per_stage |-> ncs,
   n_conv_per_stage_decoder |-> ncsd,
   hasKs |-> hasKs, kernel_sizes |-> ks, hasSt |-> hasSt, strides |-> st]

NoKwEntry(tag, other) ==
  MkEntry(tag, other, "", 0, <<>>, <<>>, <<>>, FALSE, <<>>, FALSE, <<>>)

\* arch_kwargs.get("kernel_sizes", []) and arch_kwargs.get("strides", [])
GetKs(e) == IF e.hasKs THEN e.kernel_sizes ELSE <<>>
GetSt(e) == IF e.hasSt THEN e.strides ELSE <<>>

\* lines 89-91: arch_kwargs is None
KwargsMissing(e) == e.tag # "kw"

\* lines 86-130 for an entry that has arch_kwargs: deepcopy, then the edits
Derive(original_config, t) ==
  LET new_cfg == original_config
      r == Reconcile(GetKs(new_cfg), GetSt(new_cfg), t.S)
  IN [new_cfg EXCEPT
        !.n_stages = t.S,
        !.features_per_stage = Features(t.S, t.W),
        !.n_conv_per_stage = ConvPerStage(t.S, t.D),
        !.n_conv_per_stage_decoder = ConvPerStageDecoder(t.S, t.D),
        !.hasKs = IF r.assigned THEN TRUE ELSE @,
        !.kernel_sizes = IF r.assigned THEN r.ks ELSE @,
        !.hasSt = IF r.assigned THEN TRUE ELSE @,
        !.strides = IF r.assigned THEN r.st ELSE @]

\* line 81: config_name in configs_dict
AlreadyExistsMutShort(configs, t) == short_name(t) \in DOMAIN configs

AlreadyExists(configs, t) == config_name(t) \in DOMAIN configs

\* line 133: data['configurations'][config_name] = new_cfg
InsertMutAliased(configs, name, cfg) ==
  [n \in DOMAIN configs \cup {name} |->
     IF n = name \/ n = BaseName THEN cfg ELSE configs[n]]

Insert(configs, name, cfg) ==
  [n \in DOMAIN configs \cup {name} |-> IF n = name THEN cfg ELSE configs[n]]

\* line 138: if added > 0
ShouldSaveMutAlways(n) == n >= 0

ShouldSave(n) == n > 0

\* ------------------------------------------------------- files, documents
\* A document: the parsed JSON value.  A file: the bytes on disk, i.e. a
\* document in some textual layout (fmt); "partial" is a truncated copy.
EmptyMap == [n \in {} |-> 0]

MkDoc(hasConfigs, configs) ==
  [hasConfigs |-> hasConfigs, configurations |-> configs, other |-> "dataset-meta"]

NoDoc == [hasConfigs |-> FALSE, configurations |-> EmptyMap, other |-> ""]

NoFile == [exists |-> FALSE, fmt |-> "", doc |-> NoDoc]

MkFile(fmt, doc) == [exists |-> TRUE, fmt |-> fmt, doc |-> doc]

\* line 59: json.load forgets the layout
json_load(file) == file.doc

\* line 147: json.dump(data, f, indent=4)
json_dump(doc) == MkFile("indent4", doc)

\* line 141: shutil.copy2 copies the bytes
copy2MutReserialised(file) == json_dump(json_load(file))

copy2(file) == file

\* line 62: data.get('configurations', {})
GetConfigs(doc) == IF doc.hasConfigs THEN doc.configurations ELSE EmptyMap

\* ------------------------------------------------------ initial worlds
\* Stage descriptors of the schedules on disk alternate, so that position,
\* last element and fallback are all told apart.
KernelAt(p, j) == IF (j + p) % 2 = 0 THEN <<1, 3, 3>> ELSE <<3, 3, 3>>
StrideAt(p, j) == IF (j + p) % 2 = 0 THEN <<1, 2, 2>> ELSE <<2, 2, 2>>

\* a base entry with arch_kwargs; a length of -1 means the key is absent
BaseKw(lk, ls, p) ==
  MkEntry("kw", "base-settings", "base-kwargs", 5,
          IF p = 0 THEN <<32, 64, 128, 256, 320>> ELSE <<24, 48, 96, 192, 384>>,
          <<2, 2, 2, 2, 2>>, <<2, 2, 2, 2>>,
          lk >= 0, [j \in 1..lk |-> KernelAt(p, j)],
          ls >= 0, [j \in 1..ls |-> StrideAt(p, j)])

BaseEntries ==
  {BaseKw(lk, ls, p) : lk \in (-1)..MaxLen, ls \in (-1)..MaxLen, p \in 0..1}
  \cup {NoKwEntry(tag, "base-settings") : tag \in {"noarch", "nokw", "nullkw"}}

\* entries that are on disk before the first run and are not the base
OldVariant == NoKwEntry("noarch", "hand-edited")
Entry2d == NoKwEntry("nokw", "2d-settings")

\* the sets of variant names already present before the first run
PresentChoices ==
  {{}, VariantNames,
   {config_name(triplets[k]) : k \in {j \in 1..NTriplets : triplets[j].S = 4}},
   VariantNames \ {config_name(triplets[8])}}

MkConfigs(withBase, b, present) ==
  [n \in (IF withBase THEN {BaseName} ELSE {}) \cup present \cup {"2d"} |->
     IF n = BaseName THEN b ELSE IF n = "2d" THEN Entry2d ELSE OldVariant]

InitDocs ==
  {MkDoc(TRUE, MkConfigs(TRUE, b, present)) :
     b \in BaseEntries, present \in PresentChoices}
  \cup {MkDoc(TRUE, MkConfigs(FALSE, OldVariant, present)) : present \in PresentChoices}
  \cup {MkDoc(FALSE, EmptyMap)}

OldBak == MkFile("compact", MkDoc(TRUE, MkConfigs(FALSE, OldVariant, {})))

\* ------------------------------------------------------------------ state
VARIABLES
  env,          \* os.environ.get('nnUNet_preprocessed'): "unset", "empty",
                \* "baddir" (names no directory) or "ok"
  hasDataset,   \* a child of the base directory starts with Dataset{ID:03d}
  plans,        \* the file nnUNetPlans.json
  bak,          \* the file nnUNetPlans.json.bak
  pc,           \* position of the running invocation in main()
  data,         \* the loaded document
  original_config,
  i,            \* index of the next triplet of the loop of line 77
  added,
  out,          \* lines printed on standard output by this invocation
  exit,         \* <<>> while running, <<status>> once the process has exited
  reads,        \* file-system reads made by this invocation
  ops,          \* file-system writes attempted by this invocation, in order
  run,          \* number of the invocation
  exits,        \* exit statuses of the earlier invocations
  adds,         \* added counts of the earlier invocations
  startPlans,   \* plans and bak as they were when this invocation started
  startBak

vars == <<env, hasDataset, plans, bak, pc, data, original_config, i, added,
          out, exit, reads, ops, run, exits, adds, startPlans, startBak>>

fsVars == <<env, hasDataset>>
histVars == <<run, exits, adds, startPlans, startBak>>

Init ==
  /\ \E w \in [env : {"unset", "empty", "baddir", "ok"}, hasDataset : BOOLEAN,
               plansExists : BOOLEAN] :
       /\ env = w.env
       /\ hasDataset = w.hasDataset
       /\ IF w.plansExists
          THEN \E fmt \in {"compact", "indent4"}, d \in InitDocs :
                  \* the rich documents are only worth loading when the
                  \* invocation can get as far as reading them
                  /\ (w.env = "ok" /\ w.hasDataset) \/ d = MkDoc(FALSE, EmptyMap)
                  /\ plans = MkFile(fmt, d)
          ELSE plans = NoFile
  /\ bak \in {NoFile, OldBak}
  /\ pc = "start"
  /\ data = NoDoc
  /\ original_config = NoKwEntry("", "")
  /\ i = 1
  /\ added = 0
  /\ out = <<>>
  /\ exit = <<>>
  /\ reads = {}
  /\ ops = <<>>
  /\ run = 1
  /\ exits = <<>>
  /\ adds = <<>>
  /\ startPlans = plans
  /\ startBak = bak

\* ------------------------------------------------------------------ steps
\* die(msg): print the line, exit with the code
Die(msg) ==
  /\ out' = Append(out, die(msg).line)
  /\ exit' = <<die(msg).code>>
  /\ pc' = "died"

\* lines 41-43
EnvNotSet ==
  /\ pc = "start"
  /\ env \in {"unset", "empty"}
  /\ Die(MsgNotSet)
  /\ UNCHANGED <<fsVars, plans, bak, data, original_config, i, added, reads,
                 ops, histVars>>

EnvSet ==
  /\ pc = "start"
  /\ env \notin {"unset", "empty"}
  /\ pc' = "resolve"
  /\ UNCHANGED <<fsVars, plans, bak, data, original_config, i, added, out,
                 exit, reads, ops, histVars>>

\* line 48: os.listdir raises when the value names no directory; the
\* exception is not caught: traceback on standard error, exit status 1
ListdirRaises ==
  /\ pc = "resolve"
  /\ env = "baddir"
  /\ reads' = reads \cup {"listdir"}
  /\ exit' = <<1>>
  /\ pc' = "crashed"
  /\ UNCHANGED <<fsVars, plans, bak, data, original_config, i, added, out,
                 ops, histVars>>

\* lines 46-52
DatasetNotFound ==
  /\ pc = "resolve"
  /\ env = "ok"
  /\ ~hasDataset
  /\ reads' = reads \cup {"listdir"}
  /\ Die(MsgNoDataset)
  /\ UNCHANGED <<fsVars, plans, bak, data, original_config, i, added, ops,
                 histVars>>

\* lines 54-56
PlansNotFound ==
  /\ pc = "resolve"
  /\ env = "ok"
  /\ hasDataset
  /\ ~plans.exists
  /\ reads' = reads \cup {"listdir", "exists"}
  /\ Die(MsgNoPlans)
  /\ UNCHANGED <<fsVars, plans, bak, data, original_config, i, added, ops,
                 histVars>>

Resolved ==
  /\ pc = "resolve"
  /\ env = "ok"
  /\ hasDataset
  /\ plans.exists
  /\ reads' = reads \cup {"listdir", "exists"}
  /\ pc' = "load"
  /\ UNCHANGED <<fsVars, plans, bak, data, original_config, i, added, out,
                 exit, ops, histVars>>

\* lines 58-64
LoadNoBase ==
  /\ pc = "load"
  /\ BaseName \notin DOMAIN GetConfigs(json_load(plans))
  /\ reads' = reads \cup {"plans"}
  /\ data' = json_load(plans)
  /\ Die(MsgNoBase)
  /\ UNCHANGED <<fsVars, plans, bak, original_config, i, added, ops, histVars>>

\* lines 58-75
Load ==
  /\ pc = "load"
  /\ BaseName \in DOMAIN GetConfigs(json_load(plans))
  /\ reads' = reads \cup {"plans"}
  /\ data' = json_load(plans)
  /\ original_config' = GetConfigs(json_load(plans))[BaseName]
  /\ out' = Append(out, "Adding S/D/W variants based on 3d_fullres...")
  /\ added' = 0
  /\ i' = 1
  /\ pc' = "loop"
  /\ UNCHANGED <<fsVars, plans, bak, exit, ops, histVars>>

\* lines 77-83
LoopSkip ==
  /\ pc = "loop"
  /\ i <= NTriplets
  /\ AlreadyExists(GetConfigs(data), triplets[i])
  /\ out' = Append(out, "Skipping " \o config_name(triplets[i]) \o " (already exists)")
  /\ i' = i + 1
  /\ UNCHANGED <<fsVars, plans, bak, pc, data, original_config, added, exit,
                 reads, ops, histVars>>

\* lines 77-92
LoopDie ==
  /\ pc = "loop"
  /\ i <= NTriplets
  /\ ~AlreadyExists(GetConfigs(data), triplets[i])
  /\ KwargsMissing(original_config)
  /\ Die(MsgNoKwargs)
  /\ UNCHANGED <<fsVars, plans, bak, data, original_config, i, added, reads,
                 ops, histVars>>

\* lines 77-135
LoopAdd ==
  /\ pc = "loop"
  /\ i <= NTriplets
  /\ ~AlreadyExists(GetConfigs(data), triplets[i])
  /\ ~KwargsMissing(original_config)
  /\ data' = [data EXCEPT !.configurations =
                Insert(@, config_name(triplets[i]), Derive(original_config, triplets[i]))]
  /\ added' = added + 1
  /\ out' = Append(out, "Added " \o config_name(triplets[i]))
  /\ i' = i + 1
  /\ UNCHANGED <<fsVars, plans, bak, pc, original_config, exit, reads, ops,
                 histVars>>

\* lines 138-142
BackupOk ==
  /\ pc = "loop"
  /\ i > NTriplets
  /\ ShouldSave(added)
  /\ bak' = copy2(plans)
  /\ ops' = Append(ops, "copy")
  /\ out' = Append(out, "Backup created: nnUNetPlans.json.bak")
  /\ pc' = "write"
  /\ UNCHANGED <<fsVars, plans, data, original_config, i, added, exit, reads,
                 histVars>>

\* lines 138-144: copy2 raises; it may have written nothing, a part of the
\* bytes, or all of them (the failure being in the copy of the metadata)
BackupFails ==
  /\ pc = "loop"
  /\ i > NTriplets
  /\ ShouldSave(added)
  /\ bak' \in {bak, [plans EXCEPT !.fmt = "partial"], copy2(plans)}
  /\ ops' = Append(ops, "copy-failed")
  /\ out' = Append(out, "Warning: failed to create backup")
  /\ pc' = "write"
  /\ UNCHANGED <<fsVars, plans, data, original_config, i, added, exit, reads,
                 histVars>>

\* lines 146-148
Write ==
  /\ pc = "write"
  /\ plans' = json_dump(data)
  /\ ops' = Append(ops, "write")
  /\ out' = Append(out, "Successfully added " \o ToString(added) \o " configurations")
  /\ pc' = "report"
  /\ UNCHANGED <<fsVars, bak, data, original_config, i, added, exit, reads,
                 histVars>>

\* lines 149-150
NothingAdded ==
  /\ pc = "loop"
  /\ i > NTriplets
  /\ ~ShouldSave(added)
  /\ out' = Append(out, "No new configurations added (all already exist)")
  /\ pc' = "report"
  /\ UNCHANGED <<fsVars, plans, bak, data, original_config, i, added, exit,
                 reads, ops, histVars>>

\* line 152, then main() returns
Report ==
  /\ pc = "report"
  /\ out' = Append(out, "Total configurations now: "
                          \o ToString(Cardinality(DOMAIN data.configurations)))
  /\ exit' = <<0>>
  /\ pc' = "done"
  /\ UNCHANGED <<fsVars, plans, bak, data, original_config, i, added, reads,
                 ops, histVars>>

\* the script is invoked again on the same file system
NextRun ==
  /\ pc \in {"done", "died", "crashed"}
  /\ run < MaxRuns
  /\ run' = run + 1
  /\ exits' = Append(exits, exit[1])
  /\ adds' = Append(adds, added)
  /\ startPlans' = plans
  /\ startBak' = bak
  /\ pc' = "start"
  /\ data' = NoDoc
  /\ original_config' = NoKwEntry("", "")
  /\ i' = 1
  /\ added' = 0
  /\ out' = <<>>
  /\ exit' = <<>>
  /\ reads' = {}
  /\ ops' = <<>>
  /\ UNCHANGED <<fsVars, plans, bak>>

Next ==
  \/ EnvNotSet \/ EnvSet
  \/ ListdirRaises \/ DatasetNotFound \/ PlansNotFound \/ Resolved
  \/ LoadNoBase \/ Load
  \/ LoopSkip \/ LoopDie \/ LoopAdd
  \/ BackupOk \/ BackupFails \/ Write \/ NothingAdded \/ Report
  \/ NextRun

Spec == Init /\ [][Next]_vars

TypeOK ==
  /\ pc \in {"start", "resolve", "load", "loop", "write", "report", "done",
             "died", "crashed"}
  /\ i \in 1..(NTriplets + 1)
  /\ added \in 0..NTriplets
  /\ run \in 1..MaxRuns

\* ----------------------------------------------------------- properties
Terminated == pc \in {"done", "died", "crashed"}

\* configurations as this invocation found them, and as it holds them now
StartConfigs == GetConfigs(json_load(startPlans))
NowConfigs == GetConfigs(data)

\* the triplets whose entry this invocation has added
AddedTriplets ==
  {k \in 1..NTriplets :
     /\ config_name(triplets[k]) \in DOMAIN NowConfigs
     /\ config_name(triplets[k]) \notin DOMAIN StartConfigs}

AddedEntry(k) == NowConfigs[config_name(triplets[k])]

SkipLines == {j \in 1..Len(out) : StartsWith(out[j], "Skipping ")}

LastLine == out[Len(out)]

\* the schedule the specification asks for: the base schedule as a prefix,
\* padded with its last element (or the fallback), or cut to S elements
Expected(base, S, fallback) ==
  IF Len(base) < S
  THEN base \o Repeat(IF base # <<>> THEN base[Len(base)] ELSE fallback, S - Len(base))
  ELSE SubSeq(base, 1, S)

\* C1: every added entry's kernel_sizes and strides both have length S, its
\* n_stages, whatever the lengths of the base entry's two schedules.
C1_BothSchedulesLengthS ==
  \A k \in AddedTriplets :
     /\ AddedEntry(k).n_stages = triplets[k].S
     /\ Len(AddedEntry(k).kernel_sizes) = triplets[k].S
     /\ Len(AddedEntry(k).strides) = triplets[k].S

\* C2: once the document is loaded, a base entry without
\* architecture.arch_kwargs, a document without configurations and a document
\* without 3d_fullres all end the run with exit status 1 and nothing written,
\* whichever variant names are already present.
C2_MissingKwargsIsFatal ==
  (/\ Terminated
   /\ "plans" \in reads
   /\ \/ BaseName \notin DOMAIN StartConfigs
      \/ StartConfigs[BaseName].tag \in {"noarch", "nokw"})
  => (exit = <<1>> /\ ops = <<>> /\ plans = startPlans /\ bak = startBak)

\* C3: every added entry's features_per_stage has length S, starts with W,
\* each later element is min(2 * previous, 512), so it never decreases and
\* never exceeds 512, whatever the base entry's features_per_stage.
C3_FeaturesPerStage ==
  \A k \in AddedTriplets :
     LET f == AddedEntry(k).features_per_stage
         S == triplets[k].S
     IN /\ Len(f) = S
        /\ f[1] = triplets[k].W
        /\ \A j \in 2..S : f[j] = Min(2 * f[j - 1], 512) /\ f[j] >= f[j - 1]
        /\ \A j \in 1..S : f[j] <= 512

C3_Witness ==
  /\ pc = "done"
  /\ \E k \in AddedTriplets :
        /\ triplets[k].S = 6 /\ triplets[k].W = 64
        /\ AddedEntry(k).features_per_stage[5] = 512
        /\ original_config.features_per_stage[1] = 24

\* C4: the entry added under 3d_fullres_S{S}D{D}W{W} has n_stages = S,
\* n_conv_per_stage of S elements all D, n_conv_per_stage_decoder of S-1
\* elements all D.
C4_EntryMatchesName ==
  \A k \in AddedTriplets :
     LET e == AddedEntry(k)
         S == triplets[k].S
         D == triplets[k].D
     IN /\ e.n_stages = S
        /\ Len(e.n_conv_per_stage) = S
        /\ \A j \in 1..S : e.n_conv_per_stage[j] = D
        /\ Len(e.n_conv_per_stage_decoder) = S - 1
        /\ \A j \in 1..(S - 1) : e.n_conv_per_stage_decoder[j] = D

C4_Witness ==
  /\ pc = "done"
  /\ \E k \in AddedTriplets :
        /\ triplets[k].S = 6 /\ triplets[k].D = 3
        /\ "3d_fullres_S6D3W16" = config_name(triplets[k])

\* C5: a run that follows a run that exited 0 never changes a file, never
\* terminates fatally, and ends having added nothing, with one "Skipping"
\* line for each of the 18 names and exit status 0.
C5_SecondRunIdempotent ==
  (run >= 2 /\ exits[run - 1] = 0)
  => /\ plans = startPlans
     /\ ops = <<>>
     /\ added = 0
     /\ pc \notin {"died", "crashed", "write"}
     /\ pc = "done" =>
          /\ exit = <<0>>
          /\ Cardinality(SkipLines) = NTriplets
          /\ \A k \in 1..NTriplets :
                \E j \in SkipLines :
                   out[j] = "Skipping " \o config_name(triplets[k]) \o " (already exists)"

C5_Witness ==
  /\ run = 2
  /\ pc = "done"
  /\ exits[1] = 0
  /\ adds[1] = NTriplets
  /\ Cardinality(SkipLines) = NTriplets

\* C6: the backup is attempted and the plans file overwritten only in a run
\* with added > 0; a run that finds all 18 names present touches neither file.
C6_WriteOnlyWhenAdded ==
  /\ ops # <<>> => added > 0
  /\ added = 0 => (plans = startPlans /\ bak = startBak)
  /\ VariantNames \subseteq DOMAIN StartConfigs =>
        (ops = <<>> /\ plans = startPlans /\ bak = startBak)

C6_Witness ==
  /\ pc = "done"
  /\ run = 1
  /\ added = 0
  /\ VariantNames \subseteq DOMAIN StartConfigs
  /\ startPlans.fmt = "compact"
  /\ plans.fmt = "compact"

\* C7: in a run that adds an entry the copy to .bak is attempted first, while
\* the plans file still has its starting content, and the overwrite second; a
\* copy that succeeded leaves in .bak the bytes the plans file had at the
\* start; a copy that failed is a warning, and the run still overwrites the
\* plans file and exits 0.
C7_BackupBeforeOverwrite ==
  /\ Len(ops) <= 2
  /\ Len(ops) >= 1 => ops[1] \in {"copy", "copy-failed"}
  /\ Len(ops) = 1 => (plans = startPlans /\ pc = "write")
  /\ Len(ops) = 2 => (ops[2] = "write" /\ plans = json_dump(data))
  /\ (Len(ops) >= 1 /\ ops[1] = "copy") => bak = startPlans
  /\ (Len(ops) >= 1 /\ ops[1] = "copy-failed") =>
        \E j \in 1..Len(out) : StartsWith(out[j], "Warning: ")
  /\ (added > 0 /\ i > NTriplets) => pc \notin {"died", "crashed"}
  /\ (pc = "done" /\ added > 0) => (Len(ops) = 2 /\ exit = <<0>>)

C7_Witness ==
  /\ pc = "done"
  /\ ops = <<"copy", "write">>
  /\ startPlans.fmt = "compact"
  /\ bak = startPlans
  /\ plans # startPlans

\* C8: nothing is written before the loop has gone through all 18 triplets;
\* so every termination through die() has exit status 1, a last line
\* prefixed "Error:", and both files as they were; with the environment
\* value unset or empty the line contains "not set" and nothing was read.
C8_FatalLeavesFilesAlone ==
  /\ ops # <<>> => (i > NTriplets /\ pc \in {"write", "report", "done"})
  /\ ops = <<>> => (plans = startPlans /\ bak = startBak)
  /\ pc = "died" =>
        /\ exit = <<1>>
        /\ StartsWith(LastLine, "Error:")
        /\ ops = <<>> /\ plans = startPlans /\ bak = startBak
  /\ (Terminated /\ env \in {"unset", "empty"}) =>
        (pc = "died" /\ Contains(LastLine, "not set") /\ reads = {})
  /\ (Terminated /\ env = "ok" /\ (~hasDataset \/ ~startPlans.exists)) =>
        (pc = "died" /\ "plans" \notin reads)
  /\ (Terminated /\ "plans" \in reads /\ BaseName \notin DOMAIN StartConfigs) =>
        pc = "died"

C8_Witness ==
  /\ pc = "died"
  /\ LastLine = "Error: " \o MsgNoKwargs
  /\ i > 1
  /\ Len(out) > 2

\* C9: the kernel_sizes and the strides of every added entry are the base
\* schedule kept as a prefix: padded with its last element (or the fallback
\* [3,3,3] / [2,2,2] when it is empty or absent) when shorter than S, cut to
\* its first S elements when longer, unchanged when of length S.
C9_SchedulesKeepBasePrefix ==
  \A k \in AddedTriplets :
     /\ AddedEntry(k).kernel_sizes =
          Expected(GetKs(StartConfigs[BaseName]), triplets[k].S, FallbackKernel)
     /\ AddedEntry(k).strides =
          Expected(GetSt(StartConfigs[BaseName]), triplets[k].S, FallbackStride)

\* C10: after a run that exits 0 every entry present before the run is
\* unchanged, in memory and on disk; the keys are the initial keys and the 18
\* variant names; the added entries are the names that were missing, added +
\* skipped = 18, the reported total is the initial count plus added; an added
\* entry differs from the base entry only in the six edited fields.
C10_Frame ==
  pc = "done" =>
    LET disk == GetConfigs(json_load(plans)) IN
    /\ \A n \in DOMAIN StartConfigs :
          /\ n \in DOMAIN NowConfigs /\ NowConfigs[n] = StartConfigs[n]
          /\ n \in DOMAIN disk /\ disk[n] = StartConfigs[n]
    /\ DOMAIN NowConfigs = DOMAIN StartConfigs \cup VariantNames
    /\ DOMAIN disk = DOMAIN NowConfigs
    /\ {config_name(triplets[k]) : k \in AddedTriplets} = VariantNames \ DOMAIN StartConfigs
    /\ added = Cardinality(AddedTriplets)
    /\ added + Cardinality(SkipLines) = NTriplets
    /\ LastLine = "Total configurations now: "
                    \o ToString(Cardinality(DOMAIN StartConfigs) + added)
    /\ \A k \in AddedTriplets :
          /\ AddedEntry(k).tag = StartConfigs[BaseName].tag
          /\ AddedEntry(k).other = StartConfigs[BaseName].other
          /\ AddedEntry(k).kwOther = StartConfigs[BaseName].kwOther
          /\ disk[config_name(triplets[k])] = AddedEntry(k)

C10_Witness ==
  /\ pc = "done"
  /\ added = 12
  /\ Cardinality(SkipLines) = 6
  /\ Cardinality(DOMAIN NowConfigs) = 20

====
